---- MODULE Spec2Model ----
(***************************************************************************)
(* A model of BloomFilterHW.py: the BloomFilter class (sizing at           *)
(* construction, insert, find, falsePositiveRate, numBitsSet) over its two *)
(* collaborators, BitHash (a deterministic seeded hash) and BitVector (a   *)
(* fixed-size bit array).                                                  *)
(*                                                                         *)
(* Real numbers are exact rationals <<p, q>> with q > 0 in lowest terms.   *)
(* The construction inputs are restricted to the triples on which the      *)
(* roots of the sizing formula are rational, so that the formula is        *)
(* computed exactly; on each of them the result equals the one the float   *)
(* arithmetic of the source gives.  falsePositiveRate is the exact value   *)
(* of its formula, without float rounding.                                 *)
(*                                                                         *)
(* BitHash is not part of the source file.  It is modelled as an arbitrary *)
(* deterministic function of (key, seed): hashTable records every value it *)
(* has returned so far; a call with recorded arguments returns the         *)
(* recorded value, and a call with new arguments returns any value.        *)
(***************************************************************************)
EXTENDS Integers, Sequences, FiniteSets

\* ---------------------------------------------------------------- bounds
\* keys are 1 .. MaxKey
MaxKey == 2
\* BitHash returns a value in 0 .. HashRange-1 (the seeds are the same set)
HashRange == 3
\* construction inputs: numKeys in 0 .. MaxNumKeys, numHashes in 0 .. MaxNumHashes
MaxNumKeys == 2
MaxNumHashes == 2

Keys == 1 .. MaxKey
HashVals == 0 .. (HashRange - 1)

\* ------------------------------------------------------------ arithmetic
Abs(x) == IF x < 0 THEN -x ELSE x

RECURSIVE GCD(_, _)
GCD(a, b) == IF b = 0 THEN a ELSE GCD(b, a % b)

RECURSIVE Pow(_, _)
Pow(b, e) == IF e = 0 THEN 1 ELSE b * Pow(b, e - 1)

\* the rational p/q, q # 0, in lowest terms with a positive denominator
Norm(p, q) ==
    LET g == GCD(Abs(p), Abs(q))
        s == IF q < 0 THEN -1 ELSE 1
    IN  << (s * p) \div g, (s * q) \div g >>

ROne == << 1, 1 >>
RSub(x, y) == Norm(x[1] * y[2] - y[1] * x[2], x[2] * y[2])
\* x / y, y # 0
RDiv(x, y) == Norm(x[1] * y[2], x[2] * y[1])
\* x ** e for an integer e >= 0
RPow(x, e) == Norm(Pow(x[1], e), Pow(x[2], e))
\* int(x): truncation towards zero
RTrunc(x) == IF x[1] >= 0 THEN x[1] \div x[2] ELSE -((-x[1]) \div x[2])

\* x >= 0 has a rational k-th root
HasRoot(x, k) ==
    /\ \E r \in 0 .. x[1] : Pow(r, k) = x[1]
    /\ \E s \in 1 .. x[2] : Pow(s, k) = x[2]

\* x ** (1/k) for x >= 0 with HasRoot(x, k)
Root(x, k) ==
    << CHOOSE r \in 0 .. x[1] : Pow(r, k) = x[1],
       CHOOSE s \in 1 .. x[2] : Pow(s, k) = x[2] >>

\* ------------------------------------------------------------- variables
VARIABLES
    pc,                \* "new": before construction, "ready": a filter exists,
                       \* "failed": the constructor raised
    numKeys,           \* self.__numKeys
    numHashes,         \* self.__numHashes
    maxFalsePositive,  \* self.__maxFalsePositive
    numBits,           \* self.__numBits
    bitVector,         \* self.__bitVector: 0 .. numBits-1 -> {0, 1}
    bitCount,          \* self.__bitCount
    hashTable,         \* <<key, seed>> -> the value BitHash returned for it
    inserted,          \* history: the keys insert has been called on
    reinsert,          \* history: the last operation was an insert of a key
                       \* that insert had been called on before
    op,                \* the last operation called
    key,               \* its key (0 when it takes none)
    probes,            \* the bit indices it computed, in order
    result             \* what it returned or raised

vars == << pc, numKeys, numHashes, maxFalsePositive, numBits, bitVector,
           bitCount, hashTable, inserted, reinsert, op, key, probes, result >>

filter == << numKeys, numHashes, maxFalsePositive, numBits, bitVector, bitCount >>

\* results: a tag, and a rational for the tags "int" and "rate"
Ret(tag) == [tag |-> tag, num |-> 0, den |-> 1]
RetInt(n) == [tag |-> "int", num |-> n, den |-> 1]
RetRate(x) == [tag |-> "rate", num |-> x[1], den |-> x[2]]

\* ----------------------------------------------------------- construction
\* __bitsNeeded: N = d / (1 - phi ** (1/n)), phi = 1 - P ** (1/d), truncated
bitsNeeded(n, d, P) ==
    IF d = 0 THEN [err |-> "ZeroDivisionError", val |-> 0]
    ELSE LET phi == RSub(ROne, Root(P, d)) IN
         IF n = 0 THEN [err |-> "ZeroDivisionError", val |-> 0]
         ELSE IF phi[1] < 0 /\ n > 1
              \* a negative float to a fractional power is a complex number,
              \* which int() rejects
              THEN [err |-> "TypeError", val |-> 0]
         ELSE LET r     == IF phi[1] < 0 THEN phi ELSE Root(phi, n)
                  denom == RSub(ROne, r)
              IN  IF denom[1] = 0 THEN [err |-> "ZeroDivisionError", val |-> 0]
                  ELSE [err |-> "none", val |-> RTrunc(RDiv(<< d, 1 >>, denom))]

\* the sizing formula is computed exactly on <<n, d, P>>
Exact(n, d, P) ==
    \/ d = 0
    \/ n = 0
    \/ /\ HasRoot(P, d)
       /\ LET phi == RSub(ROne, Root(P, d))
          IN  phi[1] < 0 \/ HasRoot(phi, n)

\* target rates inside (0, 1), and outside it
Rates == { << 1, 4 >>, << 1, 2 >>, << 3, 4 >>, << 9, 16 >> }
BadRates == { << 0, 1 >>, << 1, 1 >>, << 3, 1 >> }

AnyParams ==
    { p \in (0 .. MaxNumKeys) \X (0 .. MaxNumHashes) \X (Rates \cup BadRates) :
        Exact(p[1], p[2], p[3]) }

\* the parameters of the documented domain: numKeys >= 1, numHashes >= 1,
\* 0 < maxFalsePositive < 1
ValidParams ==
    { p \in AnyParams : p[1] >= 1 /\ p[2] >= 1 /\ p[3] \in Rates }

\* BitVector(size = n)
NewBitVector(n) == [i \in 0 .. (n - 1) |-> 0]

\* __init__
Init_(n, d, P) ==
    LET N == bitsNeeded(n, d, P) IN
    /\ pc = "new"
    /\ numKeys' = n
    /\ numHashes' = d
    /\ maxFalsePositive' = P
    /\ op' = "init"
    /\ key' = 0
    /\ probes' = << >>
    /\ reinsert' = FALSE
    /\ UNCHANGED << hashTable, inserted >>
    /\ IF N.err # "none"
       THEN /\ pc' = "failed"
            /\ result' = Ret(N.err)
            /\ UNCHANGED << numBits, bitVector, bitCount >>
       ELSE /\ pc' = "ready"
            /\ numBits' = N.val
            /\ bitVector' = NewBitVector(N.val)
            /\ bitCount' = 0
            /\ result' = Ret("None")

Construct == \E p \in ValidParams : Init_(p[1], p[2], p[3])

ConstructAny == \E p \in AnyParams : Init_(p[1], p[2], p[3])

\* ------------------------------------------------------------------ hash
\* the values BitHash(k, a) can return when it has returned tbl so far: the
\* recorded one, since BitHash is deterministic, and any value the first time
BitHash(tbl, k, a) ==
    IF << k, a >> \in DOMAIN tbl THEN {tbl[<< k, a >>]} ELSE HashVals

\* tbl with BitHash(k, a) = hash recorded
Recorded(tbl, k, a, hash) ==
    [p \in DOMAIN tbl \cup {<< k, a >>} |-> IF p = << k, a >> THEN hash ELSE tbl[p]]

\* the state of a call of insert or find on entry to its loop
Entry == [bits |-> bitVector, count |-> bitCount, tbl |-> hashTable, a |-> 0,
          probes |-> << >>, err |-> "none", ret |-> "none"]

\* ---------------------------------------------------------------- insert
\* InsertBody with line 80 (a = hash) left out: every probe hashes with seed 0
InsertBody_NoChain(st, k, hash) ==
    LET st1 == [st EXCEPT !.tbl = Recorded(@, k, st.a, hash)]
    IN  IF numBits = 0
        THEN [st1 EXCEPT !.err = "ZeroDivisionError"]
        ELSE LET num == hash % numBits
                 st2 == [st1 EXCEPT !.probes = Append(@, num)]
             IN  IF num \notin DOMAIN st.bits
                 THEN [st2 EXCEPT !.err = "IndexOutOfRange"]
                 ELSE IF st.bits[num] = 0
                      THEN [st2 EXCEPT !.bits[num] = 1, !.count = @ + 1]
                      ELSE st2

\* InsertBody with line 77 (bitCount += 1) outside the test of line 71
InsertBody_AlwaysCount(st, k, hash) ==
    LET st1 == [st EXCEPT !.tbl = Recorded(@, k, st.a, hash)]
    IN  IF numBits = 0
        THEN [st1 EXCEPT !.err = "ZeroDivisionError"]
        ELSE LET num == hash % numBits
                 st2 == [st1 EXCEPT !.probes = Append(@, num)]
             IN  IF num \notin DOMAIN st.bits
                 THEN [st2 EXCEPT !.err = "IndexOutOfRange"]
                 ELSE [st2 EXCEPT !.bits[num] = 1,
                                  !.count = @ + 1,
                                  !.a = hash]

\* InsertBody flipping the probed bit instead of testing and setting it
InsertBody_Toggle(st, k, hash) ==
    LET st1 == [st EXCEPT !.tbl = Recorded(@, k, st.a, hash)]
    IN  IF numBits = 0
        THEN [st1 EXCEPT !.err = "ZeroDivisionError"]
        ELSE LET num == hash % numBits
                 st2 == [st1 EXCEPT !.probes = Append(@, num)]
             IN  IF num \notin DOMAIN st.bits
                 THEN [st2 EXCEPT !.err = "IndexOutOfRange"]
                 ELSE IF st.bits[num] = 0
                      THEN [st2 EXCEPT !.bits[num] = 1,
                                       !.count = @ + 1,
                                       !.a = hash]
                      ELSE [st2 EXCEPT !.bits[num] = 0,
                                       !.count = @ - 1,
                                       !.a = hash]

\* InsertBody with line 68 as num = hash, the reduction modulo numBits left out
InsertBody_NoMod(st, k, hash) ==
    LET st1 == [st EXCEPT !.tbl = Recorded(@, k, st.a, hash)]
        num == hash
        st2 == [st1 EXCEPT !.probes = Append(@, num)]
    IN  IF num \notin DOMAIN st.bits
        THEN [st2 EXCEPT !.err = "IndexOutOfRange"]
        ELSE IF st.bits[num] = 0
             THEN [st2 EXCEPT !.bits[num] = 1,
                              !.count = @ + 1,
                              !.a = hash]
             ELSE [st2 EXCEPT !.a = hash]

\* one iteration of insert's loop (lines 65-80) on the loop state st, where
\* BitHash(k, st.a) returns hash
InsertBody(st, k, hash) ==
    LET st1 == [st EXCEPT !.tbl = Recorded(@, k, st.a, hash)]
    IN  IF numBits = 0
        THEN [st1 EXCEPT !.err = "ZeroDivisionError"]
        ELSE LET num == hash % numBits
                 st2 == [st1 EXCEPT !.probes = Append(@, num)]
             IN  IF num \notin DOMAIN st.bits
                 THEN [st2 EXCEPT !.err = "IndexOutOfRange"]
                 ELSE IF st.bits[num] = 0
                      THEN [st2 EXCEPT !.bits[num] = 1,
                                       !.count = @ + 1,
                                       !.a = hash]
                      ELSE [st2 EXCEPT !.a = hash]

\* the loop states in which iterations i .. numHashes of insert's loop can
\* end, one for each choice of the hash values not yet recorded; an
\* exception ends the loop
RECURSIVE InsertLoop(_, _, _)
InsertLoop(st, i, k) ==
    IF i > numHashes \/ st.err # "none" THEN {st}
    ELSE UNION { InsertLoop(InsertBody(st, k, hash), i + 1, k) :
                    hash \in BitHash(st.tbl, k, st.a) }

insert(k) == InsertLoop(Entry, 1, k)

Insert ==
    /\ pc = "ready"
    /\ \E k \in Keys : \E st \in insert(k) :
        /\ bitVector' = st.bits
        /\ bitCount' = st.count
        /\ hashTable' = st.tbl
        /\ inserted' = inserted \cup {k}
        /\ reinsert' = (k \in inserted)
        /\ op' = "insert"
        /\ key' = k
        /\ probes' = st.probes
        /\ result' = IF st.err = "none" THEN Ret("None") ELSE Ret(st.err)
    /\ UNCHANGED << pc, numKeys, numHashes, maxFalsePositive, numBits >>

\* ------------------------------------------------------------------ find
\* FindBody with line 97 (a = hash) left out: every probe hashes with seed 0
FindBody_NoChain(st, k, hash) ==
    LET st1 == [st EXCEPT !.tbl = Recorded(@, k, st.a, hash)]
    IN  IF numBits = 0
        THEN [st1 EXCEPT !.err = "ZeroDivisionError"]
        ELSE LET num == hash % numBits
                 st2 == [st1 EXCEPT !.probes = Append(@, num)]
             IN  IF num \notin DOMAIN st.bits
                 THEN [st2 EXCEPT !.err = "IndexOutOfRange"]
                 ELSE IF st.bits[num] = 0
                      THEN [st2 EXCEPT !.ret = "False"]
                      ELSE st2

\* FindBody with insert's lines 71-77 in place of lines 103-105: a probed bit
\* that is 0 is set and counted
FindBody_Sets(st, k, hash) ==
    LET st1 == [st EXCEPT !.tbl = Recorded(@, k, st.a, hash), !.a = hash]
    IN  IF numBits = 0
        THEN [st1 EXCEPT !.err = "ZeroDivisionError"]
        ELSE LET num == hash % numBits
                 st2 == [st1 EXCEPT !.probes = Append(@, num)]
             IN  IF num \notin DOMAIN st.bits
                 THEN [st2 EXCEPT !.err = "IndexOutOfRange"]
                 ELSE IF st.bits[num] = 0
                      THEN [st2 EXCEPT !.bits[num] = 1,
                                       !.count = @ + 1,
                                       !.ret = "False"]
                      ELSE st2

\* one iteration of find's loop (lines 94-105), where BitHash(k, st.a)
\* returns hash
FindBody(st, k, hash) ==
    LET st1 == [st EXCEPT !.tbl = Recorded(@, k, st.a, hash), !.a = hash]
    IN  IF numBits = 0
        THEN [st1 EXCEPT !.err = "ZeroDivisionError"]
        ELSE LET num == hash % numBits
                 st2 == [st1 EXCEPT !.probes = Append(@, num)]
             IN  IF num \notin DOMAIN st.bits
                 THEN [st2 EXCEPT !.err = "IndexOutOfRange"]
                 ELSE IF st.bits[num] = 0
                      THEN [st2 EXCEPT !.ret = "False"]
                      ELSE st2

\* the loop states in which iterations i .. numHashes of find's loop can end;
\* a return or an exception ends the loop
RECURSIVE FindLoop(_, _, _)
FindLoop(st, i, k) ==
    IF i > numHashes \/ st.err # "none" \/ st.ret # "none" THEN {st}
    ELSE UNION { FindLoop(FindBody(st, k, hash), i + 1, k) :
                    hash \in BitHash(st.tbl, k, st.a) }

find(k) == FindLoop(Entry, 1, k)

Find ==
    /\ pc = "ready"
    /\ \E k \in Keys : \E st \in find(k) :
        /\ bitVector' = st.bits
        /\ bitCount' = st.count
        /\ hashTable' = st.tbl
        /\ reinsert' = FALSE
        /\ op' = "find"
        /\ key' = k
        /\ probes' = st.probes
        /\ result' = IF st.err # "none" THEN Ret(st.err)
                     ELSE IF st.ret = "False" THEN Ret("False")
                     ELSE Ret("True")
    /\ UNCHANGED << pc, numKeys, numHashes, maxFalsePositive, numBits, inserted >>

\* ----------------------------------------------------- falsePositiveRate
\* phi = (1 - numHashes/bitCount) ** numKeys, P = (1 - phi) ** numHashes
falsePositiveRate ==
    IF bitCount = 0 THEN Ret("ZeroDivisionError")
    ELSE LET phi == RPow(RSub(ROne, Norm(numHashes, bitCount)), numKeys)
             P   == RPow(RSub(ROne, phi), numHashes)
         IN  RetRate(P)

FalsePositiveRate ==
    /\ pc = "ready"
    /\ op' = "falsePositiveRate"
    /\ key' = 0
    /\ probes' = << >>
    /\ result' = falsePositiveRate
    /\ reinsert' = FALSE
    /\ UNCHANGED << pc, filter, hashTable, inserted >>

\* ------------------------------------------------------------ numBitsSet
numBitsSet == bitCount

NumBitsSet ==
    /\ pc = "ready"
    /\ op' = "numBitsSet"
    /\ key' = 0
    /\ probes' = << >>
    /\ result' = RetInt(numBitsSet)
    /\ reinsert' = FALSE
    /\ UNCHANGED << pc, filter, hashTable, inserted >>

\* --------------------------------------------------------- specifications
Init ==
    /\ pc = "new"
    /\ numKeys = 0
    /\ numHashes = 0
    /\ maxFalsePositive = << 0, 1 >>
    /\ numBits = 0
    /\ bitVector = << >>
    /\ bitCount = 0
    /\ hashTable = << >>
    /\ inserted = {}
    /\ reinsert = FALSE
    /\ op = "none"
    /\ key = 0
    /\ probes = << >>
    /\ result = Ret("None")

\* a filter built from parameters of the documented domain
Next == Construct \/ Insert \/ Find \/ FalsePositiveRate \/ NumBitsSet

Spec == Init /\ [][Next]_vars

\* a filter built from any parameters
NextAny == ConstructAny \/ Insert \/ Find \/ FalsePositiveRate \/ NumBitsSet

SpecAny == Init /\ [][NextAny]_vars

\* ================================================================ claims
Range(s) == { s[i] : i \in 1 .. Len(s) }
Ones == { i \in DOMAIN bitVector : bitVector[i] = 1 }

\* The first n bit indices of key k's seed chain as tbl records it: seed 0
\* first, then each hash value as the next seed, index = hash mod numBits;
\* -1 ends the sequence where tbl has no value for the seed.
RECURSIVE Walk(_, _, _, _)
Walk(tbl, k, a, n) ==
    IF n = 0 THEN << >>
    ELSE IF << k, a >> \notin DOMAIN tbl THEN << -1 >>
    ELSE << tbl[<< k, a >>] % numBits >> \o Walk(tbl, k, tbl[<< k, a >>], n - 1)

\* C1 - no false negatives: in every reachable state of a constructed
\* filter, find(k) returns True for every key k insert was called on, and a
\* call of find on such a key has returned True.
NoFalseNegatives ==
    pc = "ready" =>
        /\ \A k \in inserted : \A st \in find(k) :
                st.err = "none" /\ st.ret = "none"
        /\ (op = "find" /\ key \in inserted) => result = Ret("True")

\* find has returned True for an inserted key after the insert of another key
C1_Witness ==
    /\ pc = "ready" /\ op = "find" /\ key \in inserted
    /\ result = Ret("True")
    /\ inserted = Keys /\ numHashes = 2 /\ bitCount >= 3

\* C2 - occupancy accounting: numBitsSet() is the number of indices of the
\* bit array that hold 1.
OccupancyAccounting ==
    pc = "ready" =>
        /\ numBitsSet = Cardinality(Ones)
        /\ op = "numBitsSet" => result = RetInt(Cardinality(Ones))

\* numBitsSet was called after two keys were inserted whose probes collide:
\* two probes each, one bit set
C2_Witness ==
    /\ pc = "ready" /\ op = "numBitsSet" /\ result = RetInt(1)
    /\ inserted = Keys /\ numHashes = 2 /\ numBits >= 2

\* C3 - monotonicity of the counter: a call of insert does not decrease
\* numBitsSet(), increases it by at most numHashes, and by exactly the number
\* of bits it probes that were 0 before the call.
CounterMonotone ==
    [][ (pc = "ready" /\ op' = "insert") =>
            /\ numBitsSet' >= numBitsSet
            /\ numBitsSet' - numBitsSet <= numHashes
            /\ numBitsSet' - numBitsSet =
                 Cardinality({ i \in Range(probes') : bitVector[i] = 0 }) ]_vars

\* an insert has probed the same zero bit twice and counted it once
C3_Witness ==
    /\ pc = "ready" /\ op = "insert" /\ numHashes = 2 /\ numBits >= 2
    /\ Len(probes) = 2 /\ probes[1] = probes[2]
    /\ bitCount = 1 /\ ~reinsert

\* C4 - idempotence: insert(k) called on a key that insert was called on
\* before changes neither the bit array nor numBitsSet().
InsertIdempotent ==
    [][ (pc = "ready" /\ op' = "insert" /\ key' \in inserted) =>
            /\ bitVector' = bitVector
            /\ numBitsSet' = numBitsSet ]_vars

\* a key was inserted again after another key was inserted
C4_Witness ==
    /\ pc = "ready" /\ op = "insert" /\ reinsert
    /\ inserted = Keys /\ bitCount >= 2

\* C5 - reads are pure: find, numBitsSet and falsePositiveRate leave the bit
\* array, bitCount, numBits, numHashes and numKeys unchanged; only insert
\* changes the state of a constructed filter.
ReadsArePure ==
    [][ /\ op' \in {"find", "numBitsSet", "falsePositiveRate"} => filter' = filter
        /\ (pc = "ready" /\ filter' # filter) => op' = "insert" ]_vars

\* find has returned False early, on a filter that holds a key
C5_Witness ==
    /\ pc = "ready" /\ op = "find" /\ result = Ret("False")
    /\ Len(probes) < numHashes /\ bitCount >= 1

\* C6 - falsePositiveRate() with bitCount = 0 produces a defined result, not
\* a division by zero.
EstimatorDefined ==
    (pc = "ready" /\ op = "falsePositiveRate" /\ bitCount = 0) =>
        result.tag # "ZeroDivisionError"

\* C7 - construction validates the sizing: parameters for which the derived
\* length is not a number >= 1, and maxFalsePositive = 0 or 1, numHashes = 0,
\* numKeys <= 0, fail with InvalidParameters; a constructed filter has
\* numBits >= 1.
ConstructionValidated ==
    LET N == bitsNeeded(numKeys, numHashes, maxFalsePositive)
        unusable == \/ numKeys <= 0
                    \/ numHashes = 0
                    \/ maxFalsePositive \in { << 0, 1 >>, << 1, 1 >> }
                    \/ N.err # "none"
                    \/ N.val < 1
    IN  /\ (pc # "new" /\ unusable) =>
                pc = "failed" /\ result = Ret("InvalidParameters")
        /\ pc = "ready" => numBits >= 1

\* C8 - find and insert probe the same indices: the indices either computes
\* are the key's seed chain (seed 0, then each hash value as the next seed,
\* index = hash mod numBits); insert computes numHashes of them; find returns
\* False exactly when one of the numHashes indices holds 0 and True when all
\* hold 1.
ProbeSequence ==
    pc = "ready" =>
        /\ op \in {"insert", "find"} =>
                probes = Walk(hashTable, key, 0, Len(probes))
        /\ op = "insert" => Len(probes) = numHashes
        /\ op = "find" =>
            /\ result \in {Ret("True"), Ret("False")}
            /\ result = Ret("False") <=> \E i \in Range(probes) : bitVector[i] = 0
            /\ result = Ret("True") => Len(probes) = numHashes
        /\ \A k \in Keys :
            LET chain == Walk(hashTable, k, 0, numHashes) IN
            -1 \notin Range(chain) =>
                \A st \in find(k) :
                    /\ st.err = "none"
                    /\ st.ret = "False" <=> \E i \in Range(chain) : bitVector[i] = 0
                    /\ st.ret = "none" => st.probes = chain

\* find has returned True for a key that was never inserted: both indices of
\* its chain were set by the insert of another key
C8_Witness ==
    /\ pc = "ready" /\ op = "find" /\ key \notin inserted
    /\ result = Ret("True") /\ numHashes = 2 /\ inserted # {}
    /\ probes[1] # probes[2]

\* C9 - bits are monotonic: a bit that holds 1 holds 1 after every step.
BitsMonotonic ==
    [][ \A i \in DOMAIN bitVector : bitVector[i] = 1 => bitVector'[i] = 1 ]_vars

\* an insert has probed a bit that another key's insert had set
C9_Witness ==
    /\ pc = "ready" /\ op = "insert" /\ ~reinsert
    /\ inserted = Keys /\ numHashes = 2
    /\ probes[1] # probes[2] /\ bitCount = 3

\* C10 - index safety: with numBits >= 1 every index insert or find computes
\* lies in 0 .. numBits-1, and neither raises IndexOutOfRange.
IndexSafety ==
    (pc = "ready" /\ numBits >= 1) =>
        /\ \A i \in Range(probes) : i \in 0 .. (numBits - 1)
        /\ result.tag # "IndexOutOfRange"

\* insert or find has reduced a hash value >= numBits to an index
C10_Witness ==
    /\ pc = "ready" /\ numBits >= 1 /\ op \in {"insert", "find"}
    /\ probes # << >>
    /\ \E a \in HashVals :
        /\ << key, a >> \in DOMAIN hashTable
        /\ hashTable[<< key, a >>] >= numBits

====
